---- MODULE Spec2Model ----
(***************************************************************************)
(* Model of the OCI Translator service (main.py) and of its smoke-test     *)
(* harness (test.py).                                                      *)
(*                                                                         *)
(* Python strings are modelled as sequences of one-character strings, so   *)
(* that lower(), capitalize(), startswith(), find(), strip() and slicing   *)
(* are computed character by character as Python computes them.            *)
(* Indices of find() and of slices are 0-based, as in Python.              *)
(***************************************************************************)
EXTENDS Integers, Sequences, FiniteSets, TLC

VARIABLES
    pc,             \* position of the request handler translate_text
    request,        \* the TranslationRequest being handled
    source_lang,    \* local of translate_text (Unbound until assigned)
    target_lang,    \* local of translate_text (Unbound until assigned)
    message,        \* reply of chain.ainvoke
    pending,        \* exception travelling through the handler's try blocks
    returned,       \* value returned by the handler body
    response,       \* HTTP response sent for the request
    calls,          \* provider calls made for the current request
    built,          \* TranslationResponse objects constructed for the request
    trace,          \* steps taken for the current request, in order
    arg,            \* argument of the function under evaluation
    ret,            \* its result
    fpc,            \* "call" before the evaluation, "returned" after
    stats,          \* counters of test_translation_service
    hpc,            \* position of the harness inside one attempt
    http            \* what requests.post gave the harness

handlerVars == <<pc, request, source_lang, target_lang, message, pending,
                 returned, response, calls, built, trace>>
funVars == <<arg, ret, fpc>>
harnessVars == <<stats, hpc, http>>
vars == <<pc, request, source_lang, target_lang, message, pending, returned,
          response, calls, built, trace, arg, ret, fpc, stats, hpc, http>>

(***************************************************************************)
(* Strings                                                                 *)
(***************************************************************************)
Lowers == <<"a", "b", "c", "d", "e", "f", "g", "h", "i", "j", "k", "l", "m",
            "n", "o", "p", "q", "r", "s", "t", "u", "v", "w", "x", "y", "z">>
Uppers == <<"A", "B", "C", "D", "E", "F", "G", "H", "I", "J", "K", "L", "M",
            "N", "O", "P", "Q", "R", "S", "T", "U", "V", "W", "X", "Y", "Z">>

Whitespace == {" ", "\t", "\n", "\r"}

\* str.lower() on one character
lowerChar(ch) ==
    IF \E i \in DOMAIN Uppers : Uppers[i] = ch
    THEN Lowers[CHOOSE i \in DOMAIN Uppers : Uppers[i] = ch]
    ELSE ch

\* str.upper() on one character
upperChar(ch) ==
    IF \E i \in DOMAIN Lowers : Lowers[i] = ch
    THEN Uppers[CHOOSE i \in DOMAIN Lowers : Lowers[i] = ch]
    ELSE ch

\* str.lower()
lower(s) == [i \in 1..Len(s) |-> lowerChar(s[i])]

\* str.upper()
upper(s) == [i \in 1..Len(s) |-> upperChar(s[i])]

\* str.capitalize(): first character upper-cased, all the others lower-cased
capitalize(s) ==
    [i \in 1..Len(s) |-> IF i = 1 THEN upperChar(s[i]) ELSE lowerChar(s[i])]

\* str.startswith(prefix)
startswith(s, prefix) ==
    /\ Len(s) >= Len(prefix)
    /\ SubSeq(s, 1, Len(prefix)) = prefix

\* str.find(ch): 0-based index of the first occurrence, -1 when there is none
find(s, ch) ==
    IF \E i \in 1..Len(s) : s[i] = ch
    THEN (CHOOSE i \in 1..Len(s) :
              s[i] = ch /\ \A j \in 1..(i - 1) : s[j] # ch) - 1
    ELSE -1

\* s[a:b] for 0 <= a, 0 <= b
slice(s, a, b) ==
    LET hi == IF b < Len(s) THEN b ELSE Len(s)
    IN  IF hi <= a THEN <<>> ELSE SubSeq(s, a + 1, hi)

\* s[a:] for 0 <= a
sliceFrom(s, a) == slice(s, a, Len(s))

\* str.lstrip()
lstrip(s) ==
    IF \A i \in 1..Len(s) : s[i] \in Whitespace
    THEN <<>>
    ELSE LET k == CHOOSE i \in 1..Len(s) :
                      s[i] \notin Whitespace
                      /\ \A j \in 1..(i - 1) : s[j] \in Whitespace
         IN  SubSeq(s, k, Len(s))

\* str.rstrip()
rstrip(s) ==
    IF \A i \in 1..Len(s) : s[i] \in Whitespace
    THEN <<>>
    ELSE LET k == CHOOSE i \in 1..Len(s) :
                      s[i] \notin Whitespace
                      /\ \A j \in (i + 1)..Len(s) : s[j] \in Whitespace
         IN  SubSeq(s, 1, k)

\* str.strip()
strip(s) == rstrip(lstrip(s))

(***************************************************************************)
(* The language table                                                      *)
(***************************************************************************)
LANGUAGE_CODES ==
    (<<"a", "r">> :> <<"A", "r", "a", "b", "i", "c">>)
    @@ (<<"z", "h">> :> <<"C", "h", "i", "n", "e", "s", "e">>)
    @@ (<<"e", "n">> :> <<"E", "n", "g", "l", "i", "s", "h">>)
    @@ (<<"f", "r">> :> <<"F", "r", "e", "n", "c", "h">>)
    @@ (<<"d", "e">> :> <<"G", "e", "r", "m", "a", "n">>)
    @@ (<<"i", "t">> :> <<"I", "t", "a", "l", "i", "a", "n">>)
    @@ (<<"j", "a">> :> <<"J", "a", "p", "a", "n", "e", "s", "e">>)
    @@ (<<"k", "o">> :> <<"K", "o", "r", "e", "a", "n">>)
    @@ (<<"p", "t">> :> <<"P", "o", "r", "t", "u", "g", "u", "e", "s", "e">>)
    @@ (<<"e", "s">> :> <<"S", "p", "a", "n", "i", "s", "h">>)

\* LANGUAGE_CODES.values()
LANGUAGE_VALUES == {LANGUAGE_CODES[k] : k \in DOMAIN LANGUAGE_CODES}

\* {v.lower(): k for k, v in LANGUAGE_CODES.items()}
LANGUAGE_NAMES ==
    [n \in {lower(v) : v \in LANGUAGE_VALUES} |->
        CHOOSE k \in DOMAIN LANGUAGE_CODES : lower(LANGUAGE_CODES[k]) = n]

UnsupportedPrefix ==
    <<"U", "n", "s", "u", "p", "p", "o", "r", "t", "e", "d", " ",
      "l", "a", "n", "g", "u", "a", "g", "e", ":", " ">>

\* str(KeyError(key)) is the repr of the key
keyErrorText(key) == <<"'">> \o key \o <<"'">>

\* Faulty variant of get_language_name: a display name is returned as it was
\* typed, without capitalize(), and the dead second branch is left out.
get_language_name_uncapitalized(code_or_name) ==
    IF lower(code_or_name) \in {lower(name) : name \in LANGUAGE_VALUES}
    THEN [exc |-> "none", value |-> code_or_name]
    ELSE IF code_or_name \in DOMAIN LANGUAGE_CODES
    THEN [exc |-> "none", value |-> capitalize(LANGUAGE_CODES[code_or_name])]
    ELSE [exc |-> "ValueError", value |-> UnsupportedPrefix \o code_or_name]

\* TranslationRequest.get_language_name, with the normal return and the
\* raised exception as one record: exc is "none" when value is the returned
\* name, and the exception's type when value is str(exception).
\* The second branch tests the lower-cased identifier against the keys of
\* LANGUAGE_NAMES (lower-cased display names), which the first branch has
\* already tested, and then indexes LANGUAGE_CODES with it.
get_language_name(code_or_name) ==
    IF lower(code_or_name) \in {lower(name) : name \in LANGUAGE_VALUES}
    THEN [exc |-> "none", value |-> capitalize(code_or_name)]
    ELSE IF lower(code_or_name) \in DOMAIN LANGUAGE_NAMES
    THEN IF lower(code_or_name) \in DOMAIN LANGUAGE_CODES
         THEN [exc |-> "none",
               value |-> capitalize(LANGUAGE_CODES[lower(code_or_name)])]
         ELSE [exc |-> "KeyError", value |-> keyErrorText(lower(code_or_name))]
    ELSE IF code_or_name \in DOMAIN LANGUAGE_CODES
    THEN [exc |-> "none", value |-> capitalize(LANGUAGE_CODES[code_or_name])]
    ELSE [exc |-> "ValueError", value |-> UnsupportedPrefix \o code_or_name]

(***************************************************************************)
(* The response classifier (lines 101-109 of translate_text)               *)
(***************************************************************************)
Sentinel == <<"E", "R", "R", "O", "R", ":">>

\* the literal 6 of message.content[6:]
SentinelLen == 6

\* Faulty variant of extract_error: the closing bracket is searched for only
\* after the opening one.
extract_error_after_open(content) ==
    LET error_start == find(content, "[")
        rest        == sliceFrom(content, error_start + 1)
        error_end   == IF error_start = -1 \/ find(rest, "]") = -1
                       THEN -1
                       ELSE error_start + 1 + find(rest, "]")
    IN  IF error_start # -1 /\ error_end # -1
        THEN slice(content, error_start + 1, error_end)
        ELSE strip(sliceFrom(content, SentinelLen))

\* error_message as computed for a reply that starts with the sentinel
extract_error(content) ==
    LET error_start == find(content, "[")
        error_end   == find(content, "]")
    IN  IF error_start # -1 /\ error_end # -1
        THEN slice(content, error_start + 1, error_end)
        ELSE strip(sliceFrom(content, SentinelLen))

\* the test of line 102 and, when it passes, the error_message
classify(content) ==
    IF startswith(content, Sentinel)
    THEN [is_error |-> TRUE, error_message |-> extract_error(content)]
    ELSE [is_error |-> FALSE, error_message |-> <<>>]

(***************************************************************************)
(* Inputs                                                                  *)
(***************************************************************************)
\* longest tail generated after the sentinel
MaxTail == 3

TailAlphabet == {"[", "]", " ", "r"}

RECURSIVE Tails(_)
Tails(n) ==
    IF n = 0
    THEN {<<>>}
    ELSE LET shorter == Tails(n - 1)
         IN  shorter \cup {Append(t, ch) : t \in shorter, ch \in TailAlphabet}

ExampleReplies ==
    { <<"E", "R", "R", "O", "R", ":", " ", "[", "r", "e", "a", "s", "o", "n",
        " ", "t", "e", "x", "t", "]">>,
      <<"E", "R", "R", "O", "R", ":", " ", "r", "e", "a", "s", "o", "n", " ",
        "t", "e", "x", "t">>,
      <<"E", "R", "R", "O", "R", ":", " ", "[", "T", "h", "e", " ", "i", "n",
        "p", "u", "t", " ", "c", "o", "n", "t", "a", "i", "n", "s", " ", "n",
        "o", " ", "t", "r", "a", "n", "s", "l", "a", "t", "a", "b", "l", "e",
        " ", "c", "o", "n", "t", "e", "n", "t", ".", "]">> }

SentinelReplies == {Sentinel \o t : t \in Tails(MaxTail)} \cup ExampleReplies

PlainReplies ==
    { <<"H", "o", "l", "a">>,
      <<"H", "o", "l", "a", " ", "[", "a", "m", "i", "g", "o", "]">>,
      <<"E", "R", "R", "O", "R">>,
      <<"E", "R", "R", "O", "R", " ", "x">>,
      <<"e", "r", "r", "o", "r", ":", " ", "[", "x", "]">>,
      <<" ", "E", "R", "R", "O", "R", ":", " ", "[", "x", "]">>,
      <<>> }

Replies == SentinelReplies \cup PlainReplies

UnknownIdentifiers ==
    { <<"x", "x">>, <<"K", "l", "i", "n", "g", "o", "n">>, <<"e", "n", "g">>,
      <<" ", "e", "n">>, <<"e">>, <<>> }

\* a name in alternating case: sPaNiSh
alternating(s) ==
    [i \in 1..Len(s) |-> IF i % 2 = 0 THEN upperChar(s[i]) ELSE lowerChar(s[i])]

Identifiers ==
    LET C == DOMAIN LANGUAGE_CODES
        N == LANGUAGE_VALUES
    IN  C \cup N
        \cup {lower(n) : n \in N} \cup {upper(n) : n \in N}
        \cup {alternating(n) : n \in N}
        \cup {upper(c) : c \in C} \cup {capitalize(c) : c \in C}
        \cup {alternating(c) : c \in C}
        \cup UnknownIdentifiers

(***************************************************************************)
(* Initial values of the parts a specification does not exercise           *)
(***************************************************************************)
Unbound == <<"<", "u", "n", "b", "o", "u", "n", "d", ">">>
NoRequest == [text |-> <<>>, source_language |-> <<>>, target_language |-> <<>>]
NoMessage == [none |-> TRUE]
NoException == [type |-> "none"]
NoValue == [none |-> TRUE]
NoResponse == [status_code |-> 0]
NoResult == [none |-> TRUE]
NoHttp == [kind |-> "none"]

HandlerIdle ==
    /\ pc = "idle"
    /\ request = NoRequest
    /\ source_lang = Unbound
    /\ target_lang = Unbound
    /\ message = NoMessage
    /\ pending = NoException
    /\ returned = NoValue
    /\ response = NoResponse
    /\ calls = 0
    /\ built = 0
    /\ trace = <<>>

FunIdle ==
    /\ arg = <<>>
    /\ ret = NoResult
    /\ fpc = "idle"

HarnessIdle ==
    /\ stats = [total |-> 0, successful |-> 0, failed |-> 0,
                total_input_chars |-> 0, total_output_chars |-> 0]
    /\ hpc = "idle"
    /\ http = NoHttp

(***************************************************************************)
(* get_language_name evaluated on one identifier                           *)
(***************************************************************************)
ResolverInit ==
    /\ arg \in Identifiers
    /\ ret = NoResult
    /\ fpc = "call"
    /\ HandlerIdle
    /\ HarnessIdle

CallGetLanguageName ==
    /\ fpc = "call"
    /\ ret' = get_language_name(arg)
    /\ fpc' = "returned"
    /\ UNCHANGED <<arg, handlerVars, harnessVars>>

ResolverNext == CallGetLanguageName

ResolverSpec == ResolverInit /\ [][ResolverNext]_vars

(***************************************************************************)
(* The classifier evaluated on one model reply                             *)
(***************************************************************************)
ClassifierInit ==
    /\ arg \in Replies
    /\ ret = NoResult
    /\ fpc = "call"
    /\ HandlerIdle
    /\ HarnessIdle

CallClassify ==
    /\ fpc = "call"
    /\ ret' = classify(arg)
    /\ fpc' = "returned"
    /\ UNCHANGED <<arg, handlerVars, harnessVars>>

ClassifierNext == CallClassify

ClassifierSpec == ClassifierInit /\ [][ClassifierNext]_vars

(***************************************************************************)
(* The request handler translate_text                                      *)
(***************************************************************************)
\* identifiers a request may carry: codes, names in several cases, an
\* upper-cased code and an identifier outside the table
RequestIdentifiers ==
    { <<"e", "n">>, <<"e", "s">>,
      <<"S", "p", "a", "n", "i", "s", "h">>,
      <<"e", "n", "g", "l", "i", "s", "h">>,
      <<"F", "R", "E", "N", "C", "H">>,
      <<"E", "S">>, <<"x", "x">> }

Texts == { <<"H", "e", "l", "l", "o">> }

\* str(e) of the failures chain.ainvoke raises
ProviderErrors ==
    { <<"c", "o", "n", "n", "e", "c", "t", "i", "o", "n", " ", "r", "e", "s",
        "e", "t">>,
      <<"t", "i", "m", "e", "o", "u", "t">> }

\* HTTPException(status_code=..., detail=...)
HTTPException(status_code, detail) ==
    [type |-> "HTTPException", status_code |-> status_code, detail |-> detail]

\* any other exception, known by its type and its str()
OtherException(type, text) == [type |-> type, str |-> text]

\* a detail that is a plain string
StrDetail(text) == [str |-> text]

\* Faulty variant of SemanticDetail: the language names are left out.
SemanticDetailBare(error_message, src, tgt) == [message |-> error_message]

\* the detail dictionary of lines 113-117
SemanticDetail(error_message, src, tgt) ==
    [message |-> error_message, source_language |-> src, target_language |-> tgt]

\* Faulty variant of TranslationResponse: the text is stripped.
TranslationResponseStripped(translated_text, src, tgt) ==
    [translated_text |-> strip(translated_text),
     source_language |-> src, target_language |-> tgt]

\* TranslationResponse(translated_text=..., source_language=..., target_language=...)
TranslationResponse(translated_text, src, tgt) ==
    [translated_text |-> translated_text,
     source_language |-> src, target_language |-> tgt]

\* Faulty variant of OuterHandler: every exception is wrapped as a 500.
OuterHandlerWrapsAll(exc) ==
    HTTPException(500, StrDetail(IF exc.type = "HTTPException"
                                 THEN <<>> ELSE exc.str))

\* Faulty variant of OuterHandler: other failures are reported as 400.
OuterHandlerClientError(exc) ==
    IF exc.type = "HTTPException"
    THEN exc
    ELSE HTTPException(400, StrDetail(exc.str))

\* the except clauses of lines 126-130: an HTTPException is re-raised as it
\* is, any other Exception becomes HTTPException(500, str(e))
OuterHandler(exc) ==
    IF exc.type = "HTTPException"
    THEN exc
    ELSE HTTPException(500, StrDetail(exc.str))

Init ==
    /\ HandlerIdle
    /\ FunIdle
    /\ HarnessIdle

\* the framework hands a validated TranslationRequest to translate_text
Receive ==
    /\ pc \in {"idle", "done"}
    /\ \E text \in Texts, src \in RequestIdentifiers, tgt \in RequestIdentifiers :
           request' = [text |-> text, source_language |-> src,
                       target_language |-> tgt]
    /\ pc' = "resolving"
    /\ source_lang' = Unbound
    /\ target_lang' = Unbound
    /\ message' = NoMessage
    /\ pending' = NoException
    /\ returned' = NoValue
    /\ response' = NoResponse
    /\ calls' = 0
    /\ built' = 0
    /\ trace' = <<>>
    /\ UNCHANGED <<funVars, harnessVars>>

\* Faulty variant of InnerHandler: the ValueError is not converted and
\* reaches the outer except clauses as it is.
InnerHandlerPassThrough(r) == OtherException(r.exc, r.value)

\* the exception a failed get_language_name leaves after the inner
\* try/except of lines 86-90: ValueError becomes HTTPException(400, str(e))
InnerHandler(r) ==
    IF r.exc = "ValueError"
    THEN HTTPException(400, StrDetail(r.value))
    ELSE OtherException(r.exc, r.value)

\* lines 86-90: both identifiers are resolved, the source first
Resolve ==
    /\ pc = "resolving"
    /\ LET s == get_language_name(request.source_language)
           t == get_language_name(request.target_language)
       IN  IF s.exc # "none"
           THEN /\ source_lang' = source_lang
                /\ target_lang' = target_lang
                /\ pending' = InnerHandler(s)
                /\ pc' = "responding"
           ELSE IF t.exc # "none"
           THEN /\ source_lang' = s.value
                /\ target_lang' = target_lang
                /\ pending' = InnerHandler(t)
                /\ pc' = "responding"
           ELSE /\ source_lang' = s.value
                /\ target_lang' = t.value
                /\ pending' = NoException
                /\ pc' = "invoking"
    /\ trace' = Append(trace, "resolve")
    /\ UNCHANGED <<request, message, returned, response, calls, built,
                   funVars, harnessVars>>

\* lines 93-99: the awaited provider call returns a reply
InvokeReturns ==
    /\ pc = "invoking"
    /\ \E content \in Replies : message' = [content |-> content]
    /\ calls' = calls + 1
    /\ pc' = "classifying"
    /\ trace' = Append(trace, "invoke")
    /\ UNCHANGED <<request, source_lang, target_lang, pending, returned,
                   response, built, funVars, harnessVars>>

\* Faulty variant of InvokeRaises: a failed call is made again.
InvokeRaisesRetry ==
    /\ pc = "invoking"
    /\ calls < 2
    /\ \E text \in ProviderErrors : pending' = OtherException("Exception", text)
    /\ calls' = calls + 1
    /\ pc' = IF calls = 0 THEN "invoking" ELSE "responding"
    /\ trace' = Append(trace, "invoke")
    /\ UNCHANGED <<request, source_lang, target_lang, message, returned,
                   response, built, funVars, harnessVars>>

\* lines 93-99: the awaited provider call raises
InvokeRaises ==
    /\ pc = "invoking"
    /\ \E text \in ProviderErrors : pending' = OtherException("Exception", text)
    /\ calls' = calls + 1
    /\ pc' = "responding"
    /\ trace' = Append(trace, "invoke")
    /\ UNCHANGED <<request, source_lang, target_lang, message, returned,
                   response, built, funVars, harnessVars>>

\* lines 101-125: the reply is classified; a sentinel reply raises the
\* semantic HTTPException(400), any other reply is wrapped in a
\* TranslationResponse and returned
Classify ==
    /\ pc = "classifying"
    /\ LET c == classify(message.content)
       IN  IF c.is_error
           THEN /\ pending' = HTTPException(400,
                        SemanticDetail(c.error_message, source_lang, target_lang))
                /\ returned' = returned
                /\ built' = built
           ELSE /\ pending' = pending
                /\ returned' = TranslationResponse(message.content,
                                                   source_lang, target_lang)
                /\ built' = built + 1
    /\ pc' = "responding"
    /\ trace' = Append(trace, "classify")
    /\ UNCHANGED <<request, source_lang, target_lang, message, response, calls,
                   funVars, harnessVars>>

\* lines 126-130 and the framework: the returned value is sent as a 200,
\* an exception goes through the outer except clauses and is sent with its
\* status code and detail
Respond ==
    /\ pc = "responding"
    /\ response' = IF pending.type = "none"
                   THEN [status_code |-> 200, body |-> returned]
                   ELSE LET e == OuterHandler(pending)
                        IN  [status_code |-> e.status_code, detail |-> e.detail]
    /\ pc' = "done"
    /\ trace' = Append(trace, "respond")
    /\ UNCHANGED <<request, source_lang, target_lang, message, pending,
                   returned, calls, built, funVars, harnessVars>>

Next ==
    \/ Receive
    \/ Resolve
    \/ InvokeReturns
    \/ InvokeRaises
    \/ Classify
    \/ Respond

Spec == Init /\ [][Next]_vars

(***************************************************************************)
(* The smoke-test harness: one iteration of the innermost loop of          *)
(* test_translation_service is one attempt                                 *)
(***************************************************************************)
\* attempts made in one run of the harness
MaxAttempts == 3

\* the sample sentence sent ("Knowledge is power")
SampleText ==
    <<"K", "n", "o", "w", "l", "e", "d", "g", "e", " ", "i", "s", " ", "p",
      "o", "w", "e", "r">>

ErrorWord == <<"E", "R", "R", "O", "R">>

\* bodies of a 200 response: response.json() raises on the first, the second
\* is {} (no "translated_text"), the third carries null, the others a string
Bodies ==
    { [valid |-> FALSE],
      [valid |-> TRUE, has_key |-> FALSE],
      [valid |-> TRUE, has_key |-> TRUE, is_str |-> FALSE],
      [valid |-> TRUE, has_key |-> TRUE, is_str |-> TRUE,
       translated_text |-> <<"H", "o", "l", "a">>],
      [valid |-> TRUE, has_key |-> TRUE, is_str |-> TRUE,
       translated_text |-> <<"E", "R", "R", "O", "R", ":", " ", "[", "x", "]">>] }

StatusCodes == {200, 400, 422, 500}

\* what requests.post gives: a response, or an exception (refused
\* connection, timeout)
PostOutcomes ==
    {[kind |-> "raise"]}
    \cup {[kind |-> "response", status_code |-> 200, body |-> b] : b \in Bodies}
    \cup {[kind |-> "response", status_code |-> c, body |-> [valid |-> FALSE]] :
             c \in StatusCodes \ {200}}

HarnessInit ==
    /\ stats = [total |-> 0, successful |-> 0, failed |-> 0,
                total_input_chars |-> 0, total_output_chars |-> 0]
    /\ hpc = "loop"
    /\ http = NoHttp
    /\ HandlerIdle
    /\ FunIdle

\* line 199, then the request is prepared (lines 200-207)
BeginAttempt ==
    /\ hpc = "loop"
    /\ stats.total < MaxAttempts
    /\ stats' = [stats EXCEPT !.total = @ + 1]
    /\ http' = NoHttp
    /\ hpc' = "post"
    /\ UNCHANGED <<handlerVars, funVars>>

\* lines 210-214: requests.post answers or raises
Post ==
    /\ hpc = "post"
    /\ \E o \in PostOutcomes : http' = o
    /\ hpc' = IF http'.kind = "raise" THEN "except" ELSE "process"
    /\ UNCHANGED <<stats, handlerVars, funVars>>

\* log_result for a result whose status is "success" (lines 132-151); the
\* text is a string
LogSuccess(st, translated_text) ==
    IF startswith(translated_text, ErrorWord)
    THEN [st EXCEPT !.failed = @ + 1, !.successful = @ - 1]
    ELSE [st EXCEPT !.total_input_chars = @ + Len(SampleText),
                    !.total_output_chars = @ + Len(translated_text)]

\* lines 217-228 for a 200: response.json() (may raise), successful += 1,
\* result["translated_text"] (KeyError when the key is missing), log_result
\* (AttributeError on startswith when the text is no string)
Process200 ==
    /\ hpc = "process"
    /\ http.status_code = 200
    /\ LET b == http.body
           counted == [stats EXCEPT !.successful = @ + 1]
       IN  IF ~b.valid
           THEN stats' = stats /\ hpc' = "except"
           ELSE IF ~b.has_key
           THEN stats' = counted /\ hpc' = "except"
           ELSE IF ~b.is_str
           THEN stats' = counted /\ hpc' = "except"
           ELSE stats' = LogSuccess(counted, b.translated_text) /\ hpc' = "loop"
    /\ UNCHANGED <<http, handlerVars, funVars>>

\* lines 229-239 for any other status: failed += 1, log_result prints
ProcessOther ==
    /\ hpc = "process"
    /\ http.status_code # 200
    /\ stats' = [stats EXCEPT !.failed = @ + 1]
    /\ hpc' = "loop"
    /\ UNCHANGED <<http, handlerVars, funVars>>

\* lines 243-253: the except clause counts a failure and logs it
Except ==
    /\ hpc = "except"
    /\ stats' = [stats EXCEPT !.failed = @ + 1]
    /\ hpc' = "loop"
    /\ UNCHANGED <<http, handlerVars, funVars>>

HarnessNext ==
    \/ BeginAttempt
    \/ Post
    \/ Process200
    \/ ProcessOther
    \/ Except

HarnessSpec == HarnessInit /\ [][HarnessNext]_vars

(***************************************************************************)
(* Properties                                                              *)
(***************************************************************************)
S_es == <<"e", "s">>
S_xx == <<"x", "x">>
S_english == <<"e", "n", "g", "l", "i", "s", "h">>
S_reason_text == <<"r", "e", "a", "s", "o", "n", " ", "t", "e", "x", "t">>
S_error_bracketed ==
    <<"E", "R", "R", "O", "R", ":", " ", "[", "r", "e", "a", "s", "o", "n",
      " ", "t", "e", "x", "t", "]">>
S_error_bare ==
    <<"E", "R", "R", "O", "R", ":", " ", "r", "e", "a", "s", "o", "n", " ",
      "t", "e", "x", "t">>
S_no_content ==
    <<"T", "h", "e", " ", "i", "n", "p", "u", "t", " ", "c", "o", "n", "t",
      "a", "i", "n", "s", " ", "n", "o", " ", "t", "r", "a", "n", "s", "l",
      "a", "t", "a", "b", "l", "e", " ", "c", "o", "n", "t", "e", "n", "t",
      ".">>
S_error_no_content == Sentinel \o <<" ", "[">> \o S_no_content \o <<"]">>
S_hola_amigo == <<"H", "o", "l", "a", " ", "[", "a", "m", "i", "g", "o", "]">>
S_timeout == <<"t", "i", "m", "e", "o", "u", "t">>

\* the identifier is a short code of the table, or a display name of the
\* table up to case
InTable(id) ==
    \/ id \in DOMAIN LANGUAGE_CODES
    \/ \E n \in LANGUAGE_VALUES : lower(n) = lower(id)

\* the table's display name for an identifier of the table
Canonical(id) ==
    IF id \in DOMAIN LANGUAGE_CODES
    THEN LANGUAGE_CODES[id]
    ELSE CHOOSE n \in LANGUAGE_VALUES : lower(n) = lower(id)

\* sub occurs in s
Contains(s, sub) ==
    \E i \in 0..(Len(s) - Len(sub)) : SubSeq(s, i + 1, i + Len(sub)) = sub

\* m is s without its leading and trailing whitespace
IsTrimOf(m, s) ==
    \E i \in 0..Len(s), j \in 0..Len(s) :
        /\ i + j <= Len(s)
        /\ \A k \in 1..i : s[k] \in Whitespace
        /\ \A k \in (Len(s) - j + 1)..Len(s) : s[k] \in Whitespace
        /\ m = SubSeq(s, i + 1, Len(s) - j)
        /\ m # <<>> => m[1] \notin Whitespace /\ m[Len(m)] \notin Whitespace

\* least element of a non-empty set of integers
Least(S) == CHOOSE x \in S : \A y \in S : x <= y

\* C1: for every short code c of the table and its display name n,
\* get_language_name of c, of n and of n.lower() all return, without
\* raising, the table's display name for c.
CodeNameEquivalence ==
    fpc = "returned" =>
        \A c \in DOMAIN LANGUAGE_CODES :
            LET n == LANGUAGE_CODES[c]
            IN  arg \in {c, n, lower(n)} => ret = [exc |-> "none", value |-> n]

CodeNameEquivalenceWitness ==
    /\ fpc = "returned"
    /\ arg = lower(LANGUAGE_CODES[S_es])
    /\ ret = [exc |-> "none", value |-> LANGUAGE_CODES[S_es]]

\* C2: an identifier that is not a display name up to case, but whose
\* lower-case form is a short code ("ES", "En"), resolves to the display
\* name of that code.
UppercaseCodeResolves ==
    ( /\ fpc = "returned"
      /\ \A n \in LANGUAGE_VALUES : lower(arg) # lower(n)
      /\ lower(arg) \in DOMAIN LANGUAGE_CODES )
    => ret = [exc |-> "none", value |-> LANGUAGE_CODES[lower(arg)]]

\* the first identifier of the request that is not in the table
FirstUnsupported ==
    IF ~InTable(request.source_language)
    THEN request.source_language
    ELSE request.target_language

\* C3: a request whose source or target language is neither a code nor a
\* display name of the table ends with a 400 whose detail is a string that
\* contains the unsupported identifier.
UnsupportedLanguageIs400 ==
    ( /\ pc = "done"
      /\ ~InTable(request.source_language) \/ ~InTable(request.target_language) )
    => /\ response.status_code = 400
       /\ DOMAIN response.detail = {"str"}
       /\ Contains(response.detail.str, FirstUnsupported)

UnsupportedLanguageWitness ==
    /\ pc = "done"
    /\ InTable(request.source_language)
    /\ request.target_language = S_xx
    /\ response.status_code = 400

\* C4: when both languages resolve and the reply does not start with
\* "ERROR:", the response is a 200 whose translated_text is the reply
\* unchanged and whose languages are the canonical names; no 200 carries a
\* translated_text that starts with "ERROR:".
SuccessReturnsReplyUnchanged ==
    /\ ( /\ pc = "done"
         /\ message # NoMessage
         /\ ~startswith(message.content, Sentinel) )
       => response =
              [status_code |-> 200,
               body |-> [translated_text |-> message.content,
                         source_language |-> Canonical(request.source_language),
                         target_language |-> Canonical(request.target_language)]]
    /\ (pc = "done" /\ response.status_code = 200)
       => ~startswith(response.body.translated_text, Sentinel)

SuccessWitness ==
    /\ pc = "done"
    /\ request.source_language = S_english
    /\ response.status_code = 200
    /\ response.body.translated_text = S_hola_amigo

\* C5: for a reply that starts with "ERROR:", the reason is what lies between
\* the first "[" and the first "]" after the sentinel when both occur, and
\* otherwise the reply without the sentinel, trimmed; "ERROR: [reason text]"
\* and "ERROR: reason text" both give "reason text".
SentinelExtraction ==
    (fpc = "returned" /\ startswith(arg, Sentinel)) =>
        LET opens  == {i \in (Len(Sentinel) + 1)..Len(arg) : arg[i] = "["}
            closes == {i \in (Len(Sentinel) + 1)..Len(arg) : arg[i] = "]"}
        IN  /\ ret.is_error
            /\ IF opens # {} /\ closes # {}
               THEN ret.error_message =
                        [i \in 1..(Least(closes) - Least(opens) - 1) |->
                            arg[Least(opens) + i]]
               ELSE IsTrimOf(ret.error_message,
                             SubSeq(arg, Len(Sentinel) + 1, Len(arg)))
            /\ arg \in {S_error_bracketed, S_error_bare}
               => ret.error_message = S_reason_text

SentinelExtractionWitness ==
    /\ fpc = "returned"
    /\ arg = S_error_bracketed
    /\ ret = [is_error |-> TRUE, error_message |-> S_reason_text]

\* C6: when both languages resolve and the reply starts with "ERROR:", the
\* response is a 400 whose detail carries the extracted message and the
\* canonical source and target names.
SemanticErrorIs400 ==
    ( /\ pc = "done"
      /\ message # NoMessage
      /\ startswith(message.content, Sentinel) )
    => /\ response =
              [status_code |-> 400,
               detail |-> [message |-> extract_error(message.content),
                           source_language |-> Canonical(request.source_language),
                           target_language |-> Canonical(request.target_language)]]
       /\ message.content = S_error_no_content
          => response.detail.message = S_no_content

SemanticErrorWitness ==
    /\ pc = "done"
    /\ message = [content |-> S_error_no_content]
    /\ response.status_code = 400
    /\ response.detail.message = S_no_content

\* the provider call of the current request raised
ProviderRaised == trace = <<"resolve", "invoke", "respond">>

\* C7: when both languages resolve and the provider call raises, the
\* response is a 500 whose detail is the text of the failure, and no
\* TranslationResponse was constructed or returned.
ProviderFailureIs500 ==
    (pc = "done" /\ ProviderRaised)
    => /\ pending.type = "Exception"
       /\ response = [status_code |-> 500, detail |-> StrDetail(pending.str)]
       /\ built = 0
       /\ returned = NoValue

ProviderFailureWitness ==
    /\ pc = "done"
    /\ ProviderRaised
    /\ response = [status_code |-> 500, detail |-> StrDetail(S_timeout)]

\* C8 as stated: every error response (unsupported-language 400, semantic
\* 400, provider 500) carries the resolved source and target language names.
ErrorResponsesCarryLanguages ==
    (pc = "done" /\ response.status_code # 200)
    => /\ {"source_language", "target_language"} \subseteq DOMAIN response.detail
       /\ response.detail.source_language = source_lang
       /\ response.detail.target_language = target_lang

\* C8 amended: of the error responses only the semantic 400 carries the
\* resolved source and target language names; the unsupported-language 400
\* and the provider 500 carry a plain string and no language names.
OnlySemanticErrorCarriesLanguages ==
    (pc = "done" /\ response.status_code # 200)
    => IF message # NoMessage
       THEN /\ {"source_language", "target_language"}
                   \subseteq DOMAIN response.detail
            /\ response.detail.source_language
                   = Canonical(request.source_language)
            /\ response.detail.target_language
                   = Canonical(request.target_language)
       ELSE DOMAIN response.detail = {"str"}

OnlySemanticErrorWitness ==
    /\ pc = "done"
    /\ response.status_code = 400
    /\ DOMAIN response.detail = {"str"}
    /\ InTable(request.source_language)
    /\ source_lang = Canonical(request.source_language)
    /\ target_lang = Unbound

\* the traces of one request: resolve, invoke, classify, respond in this
\* order, with respond coming early after a failure
RequestPaths ==
    { <<"resolve", "respond">>,
      <<"resolve", "invoke", "respond">>,
      <<"resolve", "invoke", "classify", "respond">> }

IsPrefix(t, u) == Len(t) <= Len(u) /\ SubSeq(u, 1, Len(t)) = t

\* the four terminal outcomes
Outcomes ==
    { [status_code |-> 200, kind |-> "body"],
      [status_code |-> 400, kind |-> "string"],
      [status_code |-> 400, kind |-> "dict"],
      [status_code |-> 500, kind |-> "string"] }

OutcomeOf(r) ==
    [status_code |-> r.status_code,
     kind |-> IF "body" \in DOMAIN r THEN "body"
              ELSE IF DOMAIN r.detail = {"str"} THEN "string" ELSE "dict"]

\* C9: the steps of a request occur in the order resolve, invoke, classify,
\* respond; the request ends in exactly one of the four outcomes; the
\* provider is called at most once, only after both languages resolved, and
\* never after a failure.
RequestIsLinear ==
    /\ \E path \in RequestPaths : IsPrefix(trace, path)
    /\ calls <= 1
    /\ calls = Cardinality({i \in 1..Len(trace) : trace[i] = "invoke"})
    /\ calls = 1 => /\ InTable(request.source_language)
                    /\ InTable(request.target_language)
                    /\ source_lang = Canonical(request.source_language)
                    /\ target_lang = Canonical(request.target_language)
    /\ pc = "done" <=> trace \in RequestPaths
    /\ pc = "done" => /\ OutcomeOf(response) \in Outcomes
                      /\ trace = <<"resolve", "respond">>
                             => OutcomeOf(response).status_code = 400
    /\ pc \notin {"done"} => response = NoResponse

RequestIsLinearWitness ==
    /\ pc = "done"
    /\ trace = <<"resolve", "invoke", "classify", "respond">>
    /\ calls = 1
    /\ response.status_code = 200

\* C10: at the end of every attempt of the harness,
\* successful + failed = total and successful >= 0.
HarnessCountersConsistent ==
    hpc = "loop" =>
        /\ stats.successful + stats.failed = stats.total
        /\ stats.successful >= 0

====
